---- MODULE Spec2Model ----
(***************************************************************************)
(* pyxfoil: the Xfoil command-script builder (class Xfoil of pyxfoil.py).  *)
(*                                                                         *)
(* One session object `self`, the file system it looks at (`disk`, `dirs`) *)
(* and the subprocesses it has spawned (`procs`).  Every method of the     *)
(* class is an operator on the session record, translated statement by     *)
(* statement; every action is one call of a public method.                 *)
(*                                                                         *)
(* self.input is kept as the sequence of its lines: AddInput appends       *)
(* cmd + '\n', and no command of the class contains a newline, so the      *)
(* Python string is the concatenation of the lines, each followed by '\n'. *)
(* Numbers are Python ints or floats: an angle is [q, f], the value q/4    *)
(* (exact in binary floating point) and f = "is a float"; a Reynolds       *)
(* number is [v, f], the whole number v.                                   *)
(* The executable is assumed to be found (xfoilpath is passed explicitly,  *)
(* lines 134-136); empty angle lists are not passed to Polar.              *)
(***************************************************************************)
EXTENDS Integers, Sequences, FiniteSets, TLC

\* ------------------------------------------------------------------ bounds
\* calls of arbitrary methods a caller makes on one session (Spec)
MaxOps == 2
\* the geometry input file has 0..MaxGeomLines lines when it exists
MaxGeomLines == 3

\* ------------------------------------------------------- program constants
\* LoadGeom: a geometry file with fewer lines than this is "empty"
MinGeomLines == 2
\* Quit: number of blank lines sent before 'quit'
QuitBlanks == 4

\* ---------------------------------------------------------- text utilities
Char(s, i) == SubSeq(s, i, i)

StartsWith(s, p) == Len(s) >= Len(p) /\ SubSeq(s, 1, Len(p)) = p

RECURSIVE NextSep(_, _, _)
\* least index >= i of the character sep in s, Len(s)+1 when there is none
NextSep(s, sep, i) ==
    IF i > Len(s) THEN Len(s) + 1
    ELSE IF Char(s, i) = sep THEN i
    ELSE NextSep(s, sep, i + 1)

RECURSIVE SplitFrom(_, _, _)
SplitFrom(s, sep, i) ==
    LET j == NextSep(s, sep, i)
    IN  IF j > Len(s) THEN << SubSeq(s, i, Len(s)) >>
        ELSE << SubSeq(s, i, j - 1) >> \o SplitFrom(s, sep, j + 1)

\* str.split(sep) for a one-character separator
Split(s, sep) == SplitFrom(s, sep, 1)

Digit(d) == ToString(d)

TwoDigits(n) == Digit(n \div 10) \o Digit(n % 10)

Abs(n) == IF n < 0 THEN -n ELSE n

RECURSIVE Pow10(_)
Pow10(k) == IF k = 0 THEN 1 ELSE 10 * Pow10(k - 1)

RECURSIVE NumDigits(_)
NumDigits(n) == IF n < 10 THEN 1 ELSE 1 + NumDigits(n \div 10)

\* round-half-even of num/den for num >= 0, den > 0
RoundHalfEven(num, den) ==
    LET m == num \div den
        r == num % den
    IN  IF 2 * r > den \/ (2 * r = den /\ m % 2 = 1) THEN m + 1 ELSE m

\* '{}'.format(x) for an angle x
FormatStr(x) ==
    IF ~x.f THEN ToString(x.q \div 4)
    ELSE LET a == Abs(x.q)
             frac == CASE a % 4 = 0 -> "0"
                       [] a % 4 = 1 -> "25"
                       [] a % 4 = 2 -> "5"
                       [] OTHER     -> "75"
         IN  (IF x.q < 0 THEN "-" ELSE "") \o ToString(a \div 4) \o "." \o frac

\* '{:1.1f}'.format(x) for an angle x
Format1f(x) ==
    LET t == RoundHalfEven(Abs(x.q) * 10, 4)
    IN  (IF x.q < 0 THEN "-" ELSE "") \o ToString(t \div 10) \o "." \o Digit(t % 10)

\* '{:1.2f}'.format(x) for an angle x
Format2f(x) ==
    LET h == Abs(x.q) * 25
    IN  (IF x.q < 0 THEN "-" ELSE "") \o ToString(h \div 100) \o "." \o TwoDigits(h % 100)

\* '{}'.format(Re) for a Reynolds number
FormatRe(re) == IF re.f THEN ToString(re.v) \o ".0" ELSE ToString(re.v)

\* '{:1.2e}'.format(Re) for a Reynolds number Re >= 0
Format2e(re) ==
    IF re.v = 0 THEN "0.00e+00"
    ELSE LET e  == NumDigits(re.v) - 1
             m0 == IF e <= 2 THEN re.v * Pow10(2 - e)
                   ELSE RoundHalfEven(re.v, Pow10(e - 2))
             m  == IF m0 = 1000 THEN 100 ELSE m0
             ex == IF m0 = 1000 THEN e + 1 ELSE e
         IN  Digit(m \div 100) \o "." \o TwoDigits(m % 100) \o "e+" \o TwoDigits(ex)

\* ------------------------------------------------ general file utilities
RECURSIVE DirPrefixes(_, _, _)
\* the directories MakeOutputDir tries to create, parts[i..] after prestring
DirPrefixes(parts, i, prestring) ==
    IF i > Len(parts) THEN {}
    ELSE LET p == prestring \o parts[i] \o "/"
         IN  {p} \cup DirPrefixes(parts, i + 1, p)

\* MakeOutputDir(savedir): the directories that exist afterwards
MakeOutputDir(dirset, savedir) ==
    dirset \cup DirPrefixes(Split(savedir, "/"), 1, "")

RECURSIVE JoinDirs(_, _)
JoinDirs(parts, n) ==
    IF n = 0 THEN "" ELSE JoinDirs(parts, n - 1) \o parts[n] \o "/"

\* GetParentDir(savename)
GetParentDir(savename) ==
    LET splitstring == Split(savename, "/")
    IN  JoinDirs(splitstring, Len(splitstring) - 1)

\* one character of a regular expression against one character of text:
\* '.' matches any character, every other character of the path alphabet
\* matches itself
ReCharMatch(p, c) == p = "." \/ p = c

\* the pattern `before`, read as a regular expression, matches the
\* Len(before) characters of string that end just before position i
LookBehind(string, before, i) ==
    /\ i - 1 >= Len(before)
    /\ \A k \in 1..Len(before) :
          ReCharMatch(Char(before, k), Char(string, i - 1 - Len(before) + k))

\* FindBetween(string, before, after='\.'): re.search of
\* (?<=before)(.*?)(?=\.), the leftmost position after a match of `before`
\* from which a '.' follows, and the text up to the first such '.'
FindBetween(string, before, after) ==
    LET starts == { i \in 1..(Len(string) + 1) :
                      /\ LookBehind(string, before, i)
                      /\ NextSep(string, after, i) <= Len(string) }
    IN  IF starts = {} THEN "No Match"
        ELSE LET i == CHOOSE k \in starts : \A o \in starts : k <= o
             IN  SubSeq(string, i, NextSep(string, after, i) - 1)

\* ------------------------------------------------------------ class Xfoil
\* AddInput with = for +=: the command replaces the buffer
AddInput_Replace(s, cmd) == [s EXCEPT !.input = << cmd >>]

\* self.input += '{}\n'.format(cmd)
AddInput(s, cmd) == [s EXCEPT !.input = Append(@, cmd)]

TurnOffGraphics(s) ==
    LET s1 == AddInput(s, "plop")
        s2 == AddInput(s1, "g f")
    IN  AddInput(s2, "")

SaveNameGeom(s) == s.savepath \o "/" \o s.name \o ".dat"

SaveNameSurfCp(s, alf) ==
    s.savepath \o "/" \o s.name \o "_surfCP_Re" \o Format2e(s.Re)
        \o "a" \o Format1f(alf) \o ".dat"

\* an angle argument is [scalar, vals]: a bare number (scalar, one value) or
\* a list of numbers
AsList(alfs) == [scalar |-> FALSE, vals |-> alfs.vals]

\* SaveNamePolar without the Reynolds number in the name
SaveNamePolar_NoRe(s, alfs) ==
    LET l == AsList(alfs).vals
        alfrange == IF Len(l) = 1 THEN "a" \o Format2f(l[1])
                    ELSE "a" \o Format1f(l[1]) \o "-" \o Format1f(l[Len(l)])
    IN  s.savepath \o "/" \o s.name \o "_polar_Re" \o alfrange \o ".dat"

\* SaveNamePolar with the range taken from the second element, not the last
SaveNamePolar_Second(s, alfs) ==
    LET l == AsList(alfs).vals
        alfrange == IF Len(l) = 1 THEN "a" \o Format2f(l[1])
                    ELSE "a" \o Format1f(l[1]) \o "-" \o Format1f(l[2])
    IN  s.savepath \o "/" \o s.name \o "_polar_Re" \o Format2e(s.Re)
            \o alfrange \o ".dat"

SaveNamePolar(s, alfs) ==
    LET l == AsList(alfs).vals
        alfrange == IF Len(l) = 1 THEN "a" \o Format2f(l[1])
                    ELSE "a" \o Format1f(l[1]) \o "-" \o Format1f(l[Len(l)])
    IN  s.savepath \o "/" \o s.name \o "_polar_Re" \o Format2e(s.Re)
            \o alfrange \o ".dat"

\* os.path.isfile(path)
IsFile(d, path) == path \in DOMAIN d

\* os.remove(path)
Remove(d, path) == [p \in (DOMAIN d) \ {path} |-> d[p]]

\* LoadGeomExits with the length test off by one (<= for <)
LoadGeomExits_OffByOne(s, d) ==
    /\ ~s.naca
    /\ \/ ~IsFile(d, s.foil)
       \/ d[s.foil] <= MinGeomLines

\* LoadGeom leaves through sys.exit (lines 222-229)
LoadGeomExits(s, d) ==
    /\ ~s.naca
    /\ \/ ~IsFile(d, s.foil)
       \/ d[s.foil] < MinGeomLines

\* the session when LoadGeom returns or exits
LoadGeom(s, d) ==
    IF s.naca THEN AddInput(s, "naca " \o s.foil)
    ELSE IF LoadGeomExits(s, d) THEN s
    ELSE AddInput(s, "load " \o s.foil)

\* the attributes a session does not have yet
NoAlfs == [scalar |-> FALSE, vals |-> << >>]

\* NewSession with one output directory for all airfoils
NewSession_SharedDir(a) ==
    LET name == IF a.naca THEN "naca" \o a.foil
                ELSE FindBetween(a.foil, GetParentDir(a.foil), ".")
    IN  [ xfoilpath |-> a.xfoilpath, Re |-> a.Re, Iter |-> a.Iter,
          naca |-> a.naca, name |-> name, savepath |-> "Data",
          input |-> << >>, foil |-> a.foil, alfs |-> NoAlfs, xf |-> 0 ]

\* Xfoil.__init__ up to and including self.input = '' (lines 130-177)
NewSession(a) ==
    LET name == IF a.naca THEN "naca" \o a.foil
                ELSE FindBetween(a.foil, GetParentDir(a.foil), ".")
    IN  [ xfoilpath |-> a.xfoilpath, Re |-> a.Re, Iter |-> a.Iter,
          naca |-> a.naca, name |-> name, savepath |-> "Data/" \o name,
          input |-> << >>, foil |-> a.foil, alfs |-> NoAlfs, xf |-> 0 ]

\* Xfoil__init__ with the geometry loaded before the graphics are turned off
Xfoil__init__LoadFirst(a, d) ==
    LET s0 == NewSession(a)
        s1 == LoadGeom(s0, d)
    IN  IF a.headless /\ ~LoadGeomExits(s0, d) THEN TurnOffGraphics(s1) ELSE s1

\* Xfoil.__init__ from the headless test on (lines 179-186): the session
\* when the constructor returns or exits
Xfoil__init__(a, d) ==
    LET s0 == NewSession(a)
        s1 == IF a.headless THEN TurnOffGraphics(s0) ELSE s0
    IN  LoadGeom(s1, d)

\* the constructor leaves through sys.exit
Xfoil__init__Exits(a, d) == LoadGeomExits(NewSession(a), d)

\* SaveGeom with XFOIL's `load` command in place of `save`
SaveGeom_Load(s, d, overwrite) ==
    LET savename == SaveNameGeom(s)
    IN  IF ~IsFile(d, savename) /\ overwrite
        THEN AddInput(s, "load " \o savename)
        ELSE s

\* SaveGeom that makes the saved file the session's geometry source
SaveGeom_Retarget(s, d, overwrite) ==
    LET savename == SaveNameGeom(s)
    IN  IF ~IsFile(d, savename) /\ overwrite
        THEN [AddInput(s, "save " \o savename) EXCEPT !.foil = savename]
        ELSE s

SaveGeom(s, d, overwrite) ==
    LET savename == SaveNameGeom(s)
    IN  IF ~IsFile(d, savename) /\ overwrite
        THEN AddInput(s, "save " \o savename)
        ELSE s

\* EnterOperMenu with the iteration cap set before the viscosity
EnterOperMenu_IterFirst(s) ==
    LET s1 == AddInput(s, "oper")
        s2 == AddInput(s1, "iter " \o ToString(s.Iter))
    IN  IF s.Re.v # 0 THEN AddInput(s2, "visc " \o FormatRe(s.Re)) ELSE s2

EnterOperMenu(s) ==
    LET s1 == AddInput(s, "oper")
        s2 == IF s.Re.v # 0 THEN AddInput(s1, "visc " \o FormatRe(s.Re)) ELSE s1
    IN  AddInput(s2, "iter " \o ToString(s.Iter))

\* SingleAlfa writing the pressure file before the angle is run
SingleAlfa_CpFirst(s, alf, SaveCP) ==
    LET s1 == IF SaveCP THEN AddInput(s, "cpwr " \o SaveNameSurfCp(s, alf)) ELSE s
    IN  AddInput(s1, "alfa " \o FormatStr(alf))

SingleAlfa(s, alf, SaveCP) ==
    LET s1 == AddInput(s, "alfa " \o FormatStr(alf))
    IN  IF SaveCP THEN AddInput(s1, "cpwr " \o SaveNameSurfCp(s1, alf)) ELSE s1

RECURSIVE PolarCases(_, _, _, _)
\* for alf in alfs: self.SingleAlfa(alf, SaveCP), from the i-th angle on
PolarCases(s, l, i, SaveCP) ==
    IF i > Len(l) THEN s
    ELSE PolarCases(SingleAlfa(s, l[i], SaveCP), l, i + 1, SaveCP)

\* Polar that leaves polar accumulation switched on
Polar_NoClose(s, d, alfs, SaveCP, overwrite) ==
    LET l  == AsList(alfs)
        s1 == EnterOperMenu([s EXCEPT !.alfs = l])
        savename == SaveNamePolar(s1, l)
        s2 == AddInput(s1, "pacc")
        s3 == AddInput(s2, savename)
        s4 == AddInput(s3, "")
    IN  PolarCases(s4, l.vals, 1, SaveCP)

\* the session after Polar
Polar(s, d, alfs, SaveCP, overwrite) ==
    LET l  == AsList(alfs)
        s1 == EnterOperMenu([s EXCEPT !.alfs = l])
        savename == SaveNamePolar(s1, l)
        s2 == AddInput(s1, "pacc")
        s3 == AddInput(s2, savename)
        s4 == AddInput(s3, "")
        s5 == PolarCases(s4, l.vals, 1, SaveCP)
    IN  AddInput(s5, "pacc")

\* PolarTrace with the polar file removed after accumulation is switched on
PolarTrace_RemoveLate(s, d, alfs, SaveCP, overwrite) ==
    LET l  == AsList(alfs)
        s1 == EnterOperMenu([s EXCEPT !.alfs = l])
        savename == SaveNamePolar(s1, l)
        s2 == AddInput(s1, "pacc")
        d1 == IF IsFile(d, savename) /\ overwrite THEN Remove(d, savename) ELSE d
        s3 == AddInput(s2, savename)
        s4 == AddInput(s3, "")
        s5 == PolarCases(s4, l.vals, 1, SaveCP)
        s6 == AddInput(s5, "pacc")
    IN  << [line |-> Len(s1.input), files |-> DOMAIN d],
           [line |-> Len(s2.input), files |-> DOMAIN d],
           [line |-> Len(s2.input), files |-> DOMAIN d1],
           [line |-> Len(s3.input), files |-> DOMAIN d1],
           [line |-> Len(s4.input), files |-> DOMAIN d1],
           [line |-> Len(s5.input), files |-> DOMAIN d1],
           [line |-> Len(s6.input), files |-> DOMAIN d1] >>

\* Polar statement by statement: after EnterOperMenu (line 279), after the
\* removal (285-286), after each AddInput (288, 290, 292), after the loop
\* (297-298) and after the closing AddInput (302)
PolarTrace(s, d, alfs, SaveCP, overwrite) ==
    LET l  == AsList(alfs)
        s1 == EnterOperMenu([s EXCEPT !.alfs = l])
        savename == SaveNamePolar(s1, l)
        d1 == IF IsFile(d, savename) /\ overwrite THEN Remove(d, savename) ELSE d
        s2 == AddInput(s1, "pacc")
        s3 == AddInput(s2, savename)
        s4 == AddInput(s3, "")
        s5 == PolarCases(s4, l.vals, 1, SaveCP)
        s6 == AddInput(s5, "pacc")
    IN  << [line |-> Len(s1.input), files |-> DOMAIN d],
           [line |-> Len(s1.input), files |-> DOMAIN d1],
           [line |-> Len(s2.input), files |-> DOMAIN d1],
           [line |-> Len(s3.input), files |-> DOMAIN d1],
           [line |-> Len(s4.input), files |-> DOMAIN d1],
           [line |-> Len(s5.input), files |-> DOMAIN d1],
           [line |-> Len(s6.input), files |-> DOMAIN d1] >>

\* the disk after Polar (lines 283-286)
PolarDisk(s, d, alfs, overwrite) ==
    LET savename == SaveNamePolar(s, AsList(alfs))
    IN  IF IsFile(d, savename) /\ overwrite THEN Remove(d, savename) ELSE d

RECURSIVE Blanks(_, _)
Blanks(s, n) == IF n = 0 THEN s ELSE Blanks(AddInput(s, ""), n - 1)

\* Quit without backing out of the menus first
Quit_NoBlanks(s) == AddInput(s, "quit")

Quit(s) == AddInput(Blanks(s, QuitBlanks), "quit")

\* the subprocess RunXfoil starts and what it pipes into it
Popen(s, quiet) ==
    [ exe |-> s.xfoilpath, stdin |-> s.input,
      stdout |-> IF quiet THEN "devnull" ELSE "inherit" ]

\* the session after RunXfoil; n subprocesses were started before
RunXfoil(s, n) == [s EXCEPT !.xf = n + 1]

\* ------------------------------------------------------------------ state
VARIABLES
    pc,      \* "start": no session yet; "ready": constructed; "exit": sys.exit
             \* in LoadGeom; "noexe": sys.exit for want of the executable
    args,    \* the arguments of the constructor
    self,    \* the attributes of the session
    disk,    \* the regular files: path |-> number of lines
    dirs,    \* the directories
    procs,   \* the subprocesses started so far, in order
    script,  \* the caller: the sets of methods it may call next, in order
    calls,   \* the calls made so far with their arguments, in order
    pre,     \* self.input and disk when the last call was made
    steps,   \* the last Polar call statement by statement: the length of
             \* self.input and the files on disk after each statement
    names    \* the naming resolvers applied on their own: the two sessions
             \* and angle arguments asked about, and the paths returned

vars == << pc, args, self, disk, dirs, procs, script, calls, pre, steps, names >>

\* ----------------------------------------------------------------- inputs
PyInt(n) == [q |-> 4 * n, f |-> FALSE]

PyFloat(quarters) == [q |-> quarters, f |-> TRUE]

Scalar(x) == [scalar |-> TRUE, vals |-> << x >>]

List(l) == [scalar |-> FALSE, vals |-> l]

\* angles passed to SingleAlfa: 0 and 0.25
Alfas == { PyInt(0), PyFloat(1) }

\* angle arguments passed to Polar: [0, 10] and 5
PolarInputs == { List(<< PyInt(0), PyInt(10) >>), Scalar(PyInt(5)) }

GeomFile == "Data/s1223.dat"

Foils == { [foil |-> "0012", naca |-> TRUE], [foil |-> GeomFile, naca |-> FALSE] }

Reynolds == { [v |-> 0, f |-> FALSE], [v |-> 200000, f |-> TRUE] }

Iters == { 100 }

Methods == { "AddInput", "SaveGeom", "EnterOperMenu", "SingleAlfa", "Polar",
             "Quit", "RunXfoil" }

ArgChoices ==
    { [foil |-> fl.foil, naca |-> fl.naca, Re |-> re, Iter |-> it,
       xfoilpath |-> "xfoil", headless |-> h] :
        fl \in Foils, re \in Reynolds, it \in Iters, h \in BOOLEAN }

\* the output files a session with arguments a can name
Outputs(a) ==
    LET s == NewSession(a)
    IN  { SaveNameGeom(s) } \cup { SaveNamePolar(s, al) : al \in PolarInputs }

\* the directories above a file
DirsAbove(path) ==
    LET parts == Split(path, "/")
    IN  DirPrefixes(SubSeq(parts, 1, Len(parts) - 1), 1, "")

\* the disks a run can start with: the geometry input file is missing or
\* has 0..MaxGeomLines lines; the outputs of an earlier identical run are
\* all there or all absent
Disks(a) ==
    LET geoms == IF a.naca THEN { << >> }
                 ELSE { << >> } \cup
                      { [p \in { a.foil } |-> n] : n \in 0..MaxGeomLines }
        outs  == { << >>, [p \in Outputs(a) |-> 1] }
    IN  { g @@ o : g \in geoms, o \in outs }

\* no resolver has been asked
NoNames == [asked |-> "", a1 |-> << >>, a2 |-> << >>, al1 |-> NoAlfs,
            al2 |-> NoAlfs, p1 |-> "", p2 |-> ""]

\* by: who made the call, the caller's own code or GetPolar
NoCall ==
    [op |-> "", at |-> 0, overwrite |-> FALSE, SaveCP |-> FALSE, alfs |-> NoAlfs,
     quiet |-> FALSE, cmd |-> "", by |-> "caller"]

InitWith(a, d, sc) ==
    /\ pc = "start"
    /\ args = a
    /\ self = [NewSession(a) EXCEPT !.name = "", !.savepath = ""]
    /\ disk = d
    /\ dirs = UNION { DirsAbove(p) : p \in DOMAIN d }
    /\ procs = << >>
    /\ script = sc
    /\ calls = << >>
    /\ pre = [input |-> << >>, disk |-> d]
    /\ steps = << >>
    /\ names = NoNames

\* a caller that makes MaxOps calls of any methods in any order
AnyScript == [i \in 1..MaxOps |-> Methods]

Init ==
    \E a \in ArgChoices : \E d \in Disks(a) : InitWith(a, d, AnyScript)

\* the call orders of main (lines 454-461), of GetPolar (lines 426-438) and
\* of the five-call scenario Xfoil, SaveGeom, EnterOperMenu, Polar, Quit
MainScript ==
    << {"AddInput", "SaveGeom"},
       {"SaveGeom", "EnterOperMenu", "Polar"},
       {"SingleAlfa", "Polar", "Quit"},
       {"Polar", "Quit", "RunXfoil"},
       {"Quit", "RunXfoil"},
       {"RunXfoil"} >>

\* Xfoil("0012", True, 0, 100, headless=True) with no output file on disk
MainArgs ==
    [foil |-> "0012", naca |-> TRUE, Re |-> [v |-> 0, f |-> FALSE],
     Iter |-> 100, xfoilpath |-> "xfoil", headless |-> TRUE]

InitMain == InitWith(MainArgs, << >>, MainScript)

\* ---------------------------------------------------------------- GetPolar
\* self.xfoilpath when xfoilpath is None (lines 138-146)
DefaultXfoilPath(win) ==
    IF win THEN "xfoil.exe"
    ELSE "/Applications/Xfoil.app/Contents/Resources/xfoil"

\* the constructor arguments GetPolar passes on (line 426)
GetPolarArgs(a, win) ==
    [a EXCEPT !.xfoilpath = DefaultXfoilPath(win), !.headless = TRUE]

\* the call obj.m(...) made by GetPolar on session s
DriverCall(m, s) == [NoCall EXCEPT !.op = m, !.at = Len(s.input), !.by = "GetPolar"]

\* GetPolar that runs XFOIL before it queues the quit
GetPolar_RunBeforeQuit(a, d, n, alfs, SaveCP, pane, overwrite, quiet) ==
    LET o0 == Xfoil__init__(a, d)
        o1 == IF pane THEN AddInput(o0, "pane") ELSE o0
        o2 == SaveGeom(o1, d, TRUE)
        o3 == Polar(o2, d, alfs, SaveCP, overwrite)
        d3 == PolarDisk(o2, d, alfs, overwrite)
        o4 == RunXfoil(o3, n)
        o5 == Quit(o4)
    IN  [ obj   |-> o5,
          disk  |-> d3,
          proc  |-> Popen(o3, quiet),
          pre   |-> [input |-> o4.input, disk |-> d3],
          calls |-> (IF pane THEN << [DriverCall("AddInput", o0) EXCEPT !.cmd = "pane"] >>
                     ELSE << >>) \o
                    << [DriverCall("SaveGeom", o1) EXCEPT !.overwrite = TRUE],
                       [DriverCall("Polar", o2) EXCEPT !.alfs = alfs,
                            !.SaveCP = SaveCP, !.overwrite = overwrite],
                       [DriverCall("RunXfoil", o3) EXCEPT !.quiet = quiet],
                       DriverCall("Quit", o4) >> ]

\* GetPolar from the return of the constructor on (lines 427-440), with n
\* subprocesses started before: the session it returns, the disk it leaves,
\* the subprocess it starts and the calls it makes
GetPolar(a, d, n, alfs, SaveCP, pane, overwrite, quiet) ==
    LET o0 == Xfoil__init__(a, d)
        o1 == IF pane THEN AddInput(o0, "pane") ELSE o0
        o2 == SaveGeom(o1, d, TRUE)
        o3 == Polar(o2, d, alfs, SaveCP, overwrite)
        d3 == PolarDisk(o2, d, alfs, overwrite)
        o4 == Quit(o3)
        o5 == RunXfoil(o4, n)
    IN  [ obj   |-> o5,
          disk  |-> d3,
          proc  |-> Popen(o4, quiet),
          pre   |-> [input |-> o4.input, disk |-> d3],
          calls |-> (IF pane THEN << [DriverCall("AddInput", o0) EXCEPT !.cmd = "pane"] >>
                     ELSE << >>) \o
                    << [DriverCall("SaveGeom", o1) EXCEPT !.overwrite = TRUE],
                       [DriverCall("Polar", o2) EXCEPT !.alfs = alfs,
                            !.SaveCP = SaveCP, !.overwrite = overwrite],
                       DriverCall("Quit", o3),
                       [DriverCall("RunXfoil", o4) EXCEPT !.quiet = quiet] >> ]

\* ---------------------------------------------------------------- actions
\* obj = Xfoil(foil, naca, Re, Iter, xfoilpath, headless)
Construct ==
    /\ pc = "start"
    /\ pc' = IF Xfoil__init__Exits(args, disk) THEN "exit" ELSE "ready"
    /\ self' = Xfoil__init__(args, disk)
    /\ dirs' = MakeOutputDir(dirs, NewSession(args).savepath)
    /\ pre' = [input |-> << >>, disk |-> disk]
    /\ UNCHANGED << args, disk, procs, script, calls, steps, names >>

\* the caller may call method m now
May(m) == pc = "ready" /\ script # << >> /\ m \in Head(script)

Called(c) ==
    /\ script' = Tail(script)
    /\ calls' = Append(calls, [c EXCEPT !.at = Len(self.input)])
    /\ pre' = [input |-> self.input, disk |-> disk]
    /\ UNCHANGED << pc, args, dirs, names >>

\* obj.AddInput('pane'), as GetPolar does (line 430)
CallAddInput ==
    /\ May("AddInput")
    /\ \E cmd \in { "pane" } :
        /\ self' = AddInput(self, cmd)
        /\ Called([NoCall EXCEPT !.op = "AddInput", !.cmd = cmd])
    /\ steps' = << >>
    /\ UNCHANGED << disk, procs >>

CallSaveGeom ==
    /\ May("SaveGeom")
    /\ \E overwrite \in BOOLEAN :
        /\ self' = SaveGeom(self, disk, overwrite)
        /\ Called([NoCall EXCEPT !.op = "SaveGeom", !.overwrite = overwrite])
    /\ steps' = << >>
    /\ UNCHANGED << disk, procs >>

CallEnterOperMenu ==
    /\ May("EnterOperMenu")
    /\ self' = EnterOperMenu(self)
    /\ Called([NoCall EXCEPT !.op = "EnterOperMenu"])
    /\ steps' = << >>
    /\ UNCHANGED << disk, procs >>

CallSingleAlfa ==
    /\ May("SingleAlfa")
    /\ \E alf \in Alfas, SaveCP \in BOOLEAN :
        /\ self' = SingleAlfa(self, alf, SaveCP)
        /\ Called([NoCall EXCEPT !.op = "SingleAlfa", !.alfs = Scalar(alf),
                                 !.SaveCP = SaveCP])
    /\ steps' = << >>
    /\ UNCHANGED << disk, procs >>

CallPolar ==
    /\ May("Polar")
    /\ \E alfs \in PolarInputs, SaveCP \in BOOLEAN, overwrite \in BOOLEAN :
        /\ self' = Polar(self, disk, alfs, SaveCP, overwrite)
        /\ disk' = PolarDisk(self, disk, alfs, overwrite)
        /\ Called([NoCall EXCEPT !.op = "Polar", !.alfs = alfs,
                                 !.SaveCP = SaveCP, !.overwrite = overwrite])
        /\ steps' = PolarTrace(self, disk, alfs, SaveCP, overwrite)
    /\ UNCHANGED procs

CallQuit ==
    /\ May("Quit")
    /\ self' = Quit(self)
    /\ Called([NoCall EXCEPT !.op = "Quit"])
    /\ steps' = << >>
    /\ UNCHANGED << disk, procs >>

CallRunXfoil ==
    /\ May("RunXfoil")
    /\ \E quiet \in BOOLEAN :
        /\ procs' = Append(procs, Popen(self, quiet))
        /\ self' = RunXfoil(self, Len(procs))
        /\ Called([NoCall EXCEPT !.op = "RunXfoil", !.quiet = quiet])
    /\ steps' = << >>
    /\ UNCHANGED disk

\* obj = GetPolar(foil, naca, alfs, Re, SaveCP, Iter, pane, overwrite, quiet)
\* on a platform (win) where the XFOIL executable is installed or not; the
\* caller makes no further calls on the session returned
CallGetPolar ==
    /\ pc = "start"
    /\ \E win \in BOOLEAN, installed \in BOOLEAN, alfs \in PolarInputs,
          SaveCP \in BOOLEAN, pane \in BOOLEAN, overwrite \in BOOLEAN,
          quiet \in BOOLEAN :
        LET a == GetPolarArgs(args, win)
            r == GetPolar(a, disk, Len(procs), alfs, SaveCP, pane, overwrite, quiet)
        IN  /\ args' = a
            /\ IF ~installed
                  THEN /\ pc' = "noexe"
                       /\ self' = [self EXCEPT !.xfoilpath = a.xfoilpath]
                       /\ UNCHANGED << disk, dirs, procs, script, calls, pre >>
               ELSE IF Xfoil__init__Exits(a, disk)
                  THEN /\ pc' = "exit"
                       /\ self' = Xfoil__init__(a, disk)
                       /\ dirs' = MakeOutputDir(dirs, NewSession(a).savepath)
                       /\ UNCHANGED << disk, procs, script, calls, pre >>
               ELSE /\ pc' = "ready"
                    /\ self' = r.obj
                    /\ disk' = r.disk
                    /\ dirs' = MakeOutputDir(dirs, NewSession(a).savepath)
                    /\ procs' = Append(procs, r.proc)
                    /\ script' = << >>
                    /\ calls' = r.calls
                    /\ pre' = r.pre
    /\ UNCHANGED << steps, names >>

Next ==
    \/ Construct
    \/ CallGetPolar
    \/ CallAddInput
    \/ CallSaveGeom
    \/ CallEnterOperMenu
    \/ CallSingleAlfa
    \/ CallPolar
    \/ CallQuit
    \/ CallRunXfoil

Spec == Init /\ [][Next]_vars

SpecMain == InitMain /\ [][Next]_vars

\* ------------------------------------------- the naming resolvers alone
\* airfoil sources asked about: two NACA sections and geometry files that
\* differ in directory, extension or stem
NameFoils ==
    { [foil |-> "0012", naca |-> TRUE], [foil |-> "2412", naca |-> TRUE],
      [foil |-> "Data/s1223.dat", naca |-> FALSE],
      [foil |-> "Other/s1223.dat", naca |-> FALSE],
      [foil |-> "Data/s1223.txt", naca |-> FALSE],
      [foil |-> "Data/e387.dat", naca |-> FALSE] }

\* Reynolds numbers asked about: 0, 2e5 and 200400
NameReynolds ==
    { [v |-> 0, f |-> FALSE], [v |-> 200000, f |-> TRUE], [v |-> 200400, f |-> FALSE] }

\* angle arguments asked about: [0, 10], [0, 5, 10], [10, 0], [5], 5,
\* [0.25] and [0, 0.25]
NamePolarInputs ==
    { List(<< PyInt(0), PyInt(10) >>),
      List(<< PyInt(0), PyInt(5), PyInt(10) >>),
      List(<< PyInt(10), PyInt(0) >>),
      List(<< PyInt(5) >>),
      Scalar(PyInt(5)),
      List(<< PyFloat(1) >>),
      List(<< PyInt(0), PyFloat(1) >>) }

NameArgs ==
    { [foil |-> fl.foil, naca |-> fl.naca, Re |-> re, Iter |-> 100,
       xfoilpath |-> "xfoil", headless |-> TRUE] :
        fl \in NameFoils, re \in NameReynolds }

\* two sessions and two angle arguments, no resolver called yet
InitNames ==
    /\ pc = "names"
    /\ args = MainArgs
    /\ self = [NewSession(MainArgs) EXCEPT !.name = "", !.savepath = ""]
    /\ disk = << >>
    /\ dirs = {}
    /\ procs = << >>
    /\ script = << >>
    /\ calls = << >>
    /\ pre = [input |-> << >>, disk |-> << >>]
    /\ steps = << >>
    /\ \E a1 \in NameArgs, a2 \in NameArgs :
       \E al1 \in NamePolarInputs, al2 \in NamePolarInputs :
          names = [NoNames EXCEPT !.a1 = a1, !.a2 = a2, !.al1 = al1, !.al2 = al2]

Asked(resolver, p1, p2) ==
    /\ pc = "names"
    /\ names.asked = ""
    /\ names' = [names EXCEPT !.asked = resolver, !.p1 = p1, !.p2 = p2]
    /\ UNCHANGED << pc, args, self, disk, dirs, procs, script, calls, pre, steps >>

CallSaveNameGeom ==
    Asked("SaveNameGeom", SaveNameGeom(NewSession(names.a1)),
                          SaveNameGeom(NewSession(names.a2)))

\* the surface-pressure file of the first angle of each argument
CallSaveNameSurfCp ==
    Asked("SaveNameSurfCp",
          SaveNameSurfCp(NewSession(names.a1), names.al1.vals[1]),
          SaveNameSurfCp(NewSession(names.a2), names.al2.vals[1]))

CallSaveNamePolar ==
    Asked("SaveNamePolar", SaveNamePolar(NewSession(names.a1), names.al1),
                           SaveNamePolar(NewSession(names.a2), names.al2))

NextNames ==
    \/ CallSaveNameGeom
    \/ CallSaveNameSurfCp
    \/ CallSaveNamePolar

SpecNames == InitNames /\ [][NextNames]_vars

\* ----------------------------------------------- vocabulary of the claims
LastCall == calls[Len(calls)]

\* the lines the last call appended
Appended == SubSeq(self.input, Len(pre.input) + 1, Len(self.input))

\* the first line after the lines the k-th call appended
EndOfCall(k) == IF k = Len(calls) THEN Len(self.input) + 1 ELSE calls[k + 1].at + 1

IsGeomLoadLine(l) == StartsWith(l, "naca ") \/ StartsWith(l, "load ")

IsGraphicsLine(l) == l \in { "plop", "g f" }

IsModeEntryLine(l) ==
    l = "oper" \/ StartsWith(l, "visc ") \/ StartsWith(l, "iter ")

IsAlfaLine(l) == StartsWith(l, "alfa ")

IsMenuLine(l) ==
    \/ IsModeEntryLine(l)
    \/ IsAlfaLine(l)
    \/ StartsWith(l, "cpwr ")
    \/ l = "pacc"

Positions(lines, P(_)) == { i \in 1..Len(lines) : P(lines[i]) }

GeomLoadLine(a) == (IF a.naca THEN "naca " ELSE "load ") \o a.foil

\* -------------------------------------------------------------------- C1
ScenarioCalls ==
    << [NoCall EXCEPT !.op = "SaveGeom", !.overwrite = TRUE, !.at = 4],
       [NoCall EXCEPT !.op = "EnterOperMenu", !.at = 5],
       [NoCall EXCEPT !.op = "Polar", !.alfs = List(<< PyInt(0), PyInt(10) >>),
                      !.SaveCP = TRUE, !.overwrite = TRUE, !.at = 7] >>

ScenarioLines ==
    << "plop", "g f", "", "naca 0012",
       "save Data/naca0012/naca0012.dat",
       "oper", "iter 100",
       "pacc", "Data/naca0012/naca0012_polar_Re0.00e+00a0.0-10.0.dat", "",
       "alfa 0", "cpwr Data/naca0012/naca0012_surfCP_Re0.00e+00a0.0.dat",
       "alfa 10", "cpwr Data/naca0012/naca0012_surfCP_Re0.00e+00a10.0.dat",
       "pacc", "", "", "", "", "quit" >>

\* the scenario has run: the session of InitMain, then SaveGeom(),
\* EnterOperMenu(), Polar([0, 10]) and Quit() and nothing else
ScenarioRan ==
    /\ pc = "ready"
    /\ args = MainArgs
    /\ Len(calls) = 4
    /\ SubSeq(calls, 1, 3) = ScenarioCalls
    /\ calls[4].op = "Quit"

\* C1: with no output file on disk, Initialize("0012", named, Re=0,
\* iter=100, headless) -> SaveGeometry() -> EnterAnalysisMenu() ->
\* RunPolar([0, 10]) -> Terminate() leaves the buffer equal to the listed
\* lines, `oper` and `iter 100` once each.
C1_ScenarioBuffer == ScenarioRan => self.input = ScenarioLines

\* -------------------------------------------------------------------- C2
\* C2: the buffer holds at most one `oper` line, and a Polar called after
\* EnterOperMenu or after an earlier Polar appends no `oper`, `visc` or
\* `iter` line.
C2_ModeEnteredOnce ==
    pc = "ready" =>
        /\ Cardinality(Positions(self.input, LAMBDA l : l = "oper")) <= 1
        /\ ( /\ calls # << >>
             /\ LastCall.op = "Polar"
             /\ \E k \in 1..(Len(calls) - 1) :
                    calls[k].op \in { "EnterOperMenu", "Polar" } )
           => Positions(Appended, IsModeEntryLine) = {}

\* -------------------------------------------------------------------- C3
\* C3: SaveGeom(overwrite) appends `save <geometry path>` when overwrite is
\* requested or the geometry file is not on disk, and nothing otherwise.
C3_SaveWhenOverwriteOrAbsent ==
    (calls # << >> /\ LastCall.op = "SaveGeom") =>
        Appended = IF LastCall.overwrite \/ ~IsFile(pre.disk, SaveNameGeom(self))
                   THEN << "save " \o self.savepath \o "/" \o self.name \o ".dat" >>
                   ELSE << >>

\* -------------------------------------------------------------------- C4
\* the constructor has returned and nothing was called since
JustConstructed == pc = "ready" /\ calls = << >>

\* C4: after a headless construction the buffer is plop, g f, blank and
\* then the geometry-load line, so every graphics line precedes the
\* geometry-load line; without headless it is the geometry-load line alone.
C4_GraphicsBeforeGeometry ==
    JustConstructed =>
        /\ self.input = IF args.headless
                        THEN << "plop", "g f", "", GeomLoadLine(args) >>
                        ELSE << GeomLoadLine(args) >>
        /\ \A i \in Positions(self.input, IsGraphicsLine) :
           \A j \in Positions(self.input, IsGeomLoadLine) : i < j
        /\ ~args.headless => Positions(self.input, IsGraphicsLine) = {}

C4_Witness == JustConstructed /\ args.headless /\ ~args.naca

\* -------------------------------------------------------------------- C5
\* the lines one mode entry appends for a session
ModeEntryBlock(s) ==
    IF s.Re.v = 0 THEN << "oper", "iter " \o ToString(s.Iter) >>
    ELSE << "oper", "visc " \o FormatRe(s.Re), "iter " \o ToString(s.Iter) >>

\* C5: every EnterOperMenu call appended `oper`, then `visc <Re>` once iff
\* Re /= 0, then `iter <N>`, and every `alfa` line appended by a later call
\* comes after that block.
C5_ModeEntryOrder ==
    pc = "ready" =>
        \A k \in 1..Len(calls) :
            calls[k].op = "EnterOperMenu" =>
                LET block == SubSeq(self.input, calls[k].at + 1, EndOfCall(k) - 1)
                IN  /\ block = ModeEntryBlock(self)
                    /\ Cardinality(Positions(block, LAMBDA l : StartsWith(l, "visc ")))
                         = IF args.Re.v # 0 THEN 1 ELSE 0
                    /\ \A i \in Positions(block, LAMBDA l : StartsWith(l, "visc ")) :
                       \A j \in Positions(block, LAMBDA l : StartsWith(l, "iter ")) :
                           i < j
                    /\ \A j \in Positions(self.input, IsAlfaLine) :
                           j > calls[k].at => j >= EndOfCall(k)

C5_Witness ==
    /\ pc = "ready"
    /\ Len(calls) = 2
    /\ calls[1].op = "EnterOperMenu"
    /\ calls[2].op = "SingleAlfa"
    /\ args.Re.v # 0

\* -------------------------------------------------------------------- C6
\* C6: after a successful construction the buffer always holds exactly one
\* geometry-load line, and it precedes every analysis-menu line.
C6_OneGeometryLoadFirst ==
    pc = "ready" =>
        /\ Cardinality(Positions(self.input, IsGeomLoadLine)) = 1
        /\ \A i \in Positions(self.input, IsGeomLoadLine) :
           \A j \in Positions(self.input, IsMenuLine) : i < j

C6_Witness ==
    /\ pc = "ready"
    /\ Len(calls) >= 2
    /\ \E k \in 1..Len(calls) : calls[k].op = "Polar"
    /\ LastCall.op = "Quit"

\* -------------------------------------------------------------------- C7
\* C7: a second RunXfoil starts no subprocess and sends nothing: the script
\* is run at most once per session.
C7_FlushAtMostOnce == Len(procs) <= 1

\* -------------------------------------------------------------------- C8
\* C8: once RunXfoil has been called, no call changes the buffer.
C8_FlushedScriptImmutable == [][procs # << >> => self'.input = self.input]_vars

\* -------------------------------------------------------------------- C9
\* C9: when the constructor fails on a missing or too short geometry file,
\* nothing has been appended to the buffer, headless or not.
C9_NothingQueuedOnFailure == pc = "exit" => self.input = << >>

\* ------------------------------------------------------------------- C10
\* C10: a file-based geometry is accepted, and `load <path>` appended, exactly
\* when the file exists and has at least 2 lines; otherwise the constructor
\* fails and no `load` line is appended.
C10_GeometryFileValidation ==
    (pc \in { "ready", "exit" } /\ ~args.naca) =>
        LET ok == IsFile(disk, args.foil) /\ disk[args.foil] >= 2
            loads == Positions(self.input, LAMBDA l : StartsWith(l, "load "))
        IN  /\ (pc = "ready") = ok
            /\ (pc = "exit") = ~ok
            /\ ok => /\ Cardinality(loads) = 1
                     /\ \A i \in loads : self.input[i] = "load " \o args.foil
            /\ ~ok => loads = {}

C10_Witness ==
    /\ JustConstructed
    /\ ~args.naca
    /\ disk[args.foil] = 2
    /\ self.input[Len(self.input)] = "load " \o args.foil

\* ------------------------------------------------------------------- C11
\* the polar file the last Polar call named
LastPolarFile == SaveNamePolar(self, LastCall.alfs)

\* the statement of the last Polar call that appended its opening `pacc`
OpeningPacc ==
    CHOOSE k \in 2..Len(steps) :
        /\ steps[k].line = steps[k - 1].line + 1
        /\ self.input[steps[k].line] = "pacc"
        /\ \A j \in 2..(k - 1) : steps[j].line = steps[j - 1].line

\* C11: Polar with overwrite and an existing polar file has removed the file
\* before it appends the opening `pacc`; without overwrite the file stays;
\* Polar removes no other file and changes none.
C11_PolarFileClearedBeforePacc ==
    (pc = "ready" /\ calls # << >> /\ LastCall.op = "Polar") =>
        /\ steps[Len(steps)].line = Len(self.input)
        /\ steps[Len(steps)].files = DOMAIN disk
        /\ steps[1].files = DOMAIN pre.disk
        /\ LastCall.overwrite =>
              /\ LastPolarFile \notin steps[OpeningPacc - 1].files
              /\ LastPolarFile \notin steps[OpeningPacc].files
              /\ ~IsFile(disk, LastPolarFile)
        /\ ~LastCall.overwrite => DOMAIN disk = DOMAIN pre.disk
        /\ (DOMAIN pre.disk) \ (DOMAIN disk) \subseteq { LastPolarFile }
        /\ \A k \in 1..Len(steps) : steps[k].files \subseteq DOMAIN pre.disk
        /\ \A p \in DOMAIN disk : p \in DOMAIN pre.disk /\ disk[p] = pre.disk[p]

C11_Witness ==
    /\ pc = "ready"
    /\ calls # << >>
    /\ LastCall.op = "Polar"
    /\ LastCall.overwrite
    /\ IsFile(pre.disk, LastPolarFile)
    /\ ~IsFile(disk, LastPolarFile)
    /\ self.input[Len(self.input)] = "pacc"

\* ------------------------------------------------------------------- C12
EndsWith(s, p) == Len(s) >= Len(p) /\ SubSeq(s, Len(s) - Len(p) + 1, Len(s)) = p

\* the two sessions asked about are for the same airfoil
SameAirfoil == names.a1.foil = names.a2.foil /\ names.a1.naca = names.a2.naca

\* the same angles in the same order, whatever their Python type
SameAngles(x, y) ==
    /\ Len(x.vals) = Len(y.vals)
    /\ \A i \in 1..Len(x.vals) : x.vals[i].q = y.vals[i].q

Ascending(x) ==
    \A i \in 1..Len(x.vals) : \A j \in 1..Len(x.vals) :
        i < j => x.vals[i].q < x.vals[j].q

\* what of a parameter set is printed into the polar name
PolarKey(a, al) ==
    IF Len(al.vals) = 1
    THEN << Format2e(a.Re), "single", Format2f(al.vals[1]), "" >>
    ELSE << Format2e(a.Re), "range", Format1f(al.vals[1]),
            Format1f(al.vals[Len(al.vals)]) >>

AskedPolarSameAirfoil ==
    pc = "names" /\ names.asked = "SaveNamePolar" /\ SameAirfoil

\* C12 as stated: for a fixed airfoil, parameter sets that differ in Reynolds
\* number or in the ascending angle sequence get different polar paths, and
\* identical sets the same path.
C12_DifferentParametersDifferentPath ==
    (AskedPolarSameAirfoil /\ Ascending(names.al1) /\ Ascending(names.al2)) =>
        LET same == /\ names.a1.Re.v = names.a2.Re.v
                    /\ SameAngles(names.al1, names.al2)
        IN  (names.p1 = names.p2) = same

\* C12 as amended: for a fixed airfoil, two parameter sets get the same
\* polar path exactly when they print the same: the same Reynolds number to
\* three significant digits and, for one angle, the same angle to two
\* decimals, for more angles the same first and last angle to one decimal.
C12_SamePathIffSamePrintedKey ==
    AskedPolarSameAirfoil =>
        /\ (names.p1 = names.p2)
              = (PolarKey(names.a1, names.al1) = PolarKey(names.a2, names.al2))
        /\ ( /\ names.a1.Re.v = names.a2.Re.v
             /\ SameAngles(names.al1, names.al2) ) => names.p1 = names.p2

\* two runs that differ in an interior angle share the polar file
C12_Witness ==
    /\ AskedPolarSameAirfoil
    /\ names.a1.Re = names.a2.Re
    /\ Len(names.al1.vals) = 2
    /\ Len(names.al2.vals) = 3
    /\ names.p1 = names.p2

IsPrefix(x, y) == Len(x) <= Len(y) /\ SubSeq(y, 1, Len(x)) = x

\* C14: every operation only appends: the buffer before a step is a prefix
\* of the buffer after it, so no line is ever altered or removed.
C14_AppendOnly == [][IsPrefix(self.input, self'.input)]_vars

\* two calls were made and the second one appended lines to a buffer that
\* the first one had already extended
C14_Witness ==
    /\ pc = "ready"
    /\ Len(calls) = 2
    /\ calls[2].at > calls[1].at
    /\ Len(self.input) > Len(pre.input)
    /\ IsPrefix(pre.input, self.input)

\* ------------------------------------------------------------------- C15
RECURSIVE DropModeEntry(_)
\* lines without their leading oper / visc / iter lines
DropModeEntry(lines) ==
    IF lines # << >> /\ IsModeEntryLine(Head(lines))
    THEN DropModeEntry(Tail(lines)) ELSE lines

\* the pressure file of one case: the one-angle form, one decimal
CaseFile(s, alf) ==
    s.savepath \o "/" \o s.name \o "_surfCP_Re" \o Format2e(s.Re) \o "a"
        \o Format1f(alf) \o ".dat"

RECURSIVE CaseLines(_, _, _, _)
\* `alfa <angle>`, followed iff SaveCP by `cpwr <file>`, for l[i], l[i+1], ...
CaseLines(s, l, i, SaveCP) ==
    IF i > Len(l) THEN << >>
    ELSE << "alfa " \o FormatStr(l[i]) >>
         \o (IF SaveCP THEN << "cpwr " \o CaseFile(s, l[i]) >> ELSE << >>)
         \o CaseLines(s, l, i + 1, SaveCP)

\* C15: after the mode-entry lines, Polar appends `pacc`, the polar path, a
\* blank line, then per angle in the given order `alfa <angle>` followed iff
\* SaveCP by `cpwr <one-angle pressure file>`, then `pacc`; there are as many
\* `alfa` lines as angles.
C15_PolarBlock ==
    (pc = "ready" /\ calls # << >> /\ LastCall.op = "Polar") =>
        LET l == LastCall.alfs.vals
            body == DropModeEntry(Appended)
        IN  /\ body = << "pacc", SaveNamePolar(self, LastCall.alfs), "" >>
                      \o CaseLines(self, l, 1, LastCall.SaveCP)
                      \o << "pacc" >>
            /\ Cardinality(Positions(Appended, IsAlfaLine)) = Len(l)
            /\ \A i \in Positions(body, IsAlfaLine) :
                  LastCall.SaveCP = StartsWith(body[i + 1], "cpwr ")
            /\ \A i \in Positions(body, LAMBDA x : StartsWith(x, "cpwr ")) :
                  /\ IsAlfaLine(body[i - 1])
                  /\ \E alf \in { l[k] : k \in 1..Len(l) } :
                        EndsWith(body[i], "a" \o Format1f(alf) \o ".dat")
                  /\ Len(l) > 1 =>
                        ~EndsWith(body[i], "a" \o Format1f(l[1]) \o "-"
                                            \o Format1f(l[Len(l)]) \o ".dat")

\* Polar([0, 10]) with the pressure files
C15_Witness ==
    /\ pc = "ready"
    /\ calls # << >>
    /\ LastCall.op = "Polar"
    /\ LastCall.SaveCP
    /\ Len(LastCall.alfs.vals) = 2
    /\ Cardinality(Positions(Appended, IsAlfaLine)) = 2

\* ------------------------------------------------------------------- C16
RECURSIVE MenuDepth(_, _)
\* the menu level of the tool after it has read the first n lines: 0 at the
\* top level, 1 in a menu entered by `oper` or `plop`; a blank line steps
\* one level up and does nothing at the top level
MenuDepth(lines, n) ==
    IF n = 0 THEN 0
    ELSE LET d == MenuDepth(lines, n - 1)
         IN  IF lines[n] \in { "oper", "plop" } THEN 1
             ELSE IF lines[n] = "" THEN (IF d > 0 THEN d - 1 ELSE 0)
             ELSE d

\* C16: Quit appends exactly four blank lines and `quit`; the tool is at the
\* top level when it reads `quit`, and `quit` is the last line.
C16_QuitFromTopLevel ==
    (pc = "ready" /\ calls # << >> /\ LastCall.op = "Quit") =>
        /\ Appended = << "", "", "", "", "quit" >>
        /\ self.input[Len(self.input)] = "quit"
        /\ MenuDepth(self.input, Len(self.input) - 1) = 0

\* Quit was called while the tool was in the oper menu
C16_Witness ==
    /\ pc = "ready"
    /\ Len(calls) >= 3
    /\ LastCall.op = "Quit"
    /\ \E k \in 1..Len(calls) : calls[k].op = "EnterOperMenu"
    /\ MenuDepth(pre.input, Len(pre.input)) = 1
    /\ MenuDepth(self.input, Len(self.input)) = 0

\* ------------------------------------------------------------------- C17
\* the airfoil name of a source: naca<digits>, or what stands between the
\* last '/' of the file path and the first '.' after it
StemName(a) ==
    IF a.naca THEN "naca" \o a.foil
    ELSE LET parts == Split(a.foil, "/")
             file  == parts[Len(parts)]
         IN  IF NextSep(file, ".", 1) > Len(file) THEN "No Match"
             ELSE Split(file, ".")[1]

OutputDir(a) == NewSession(a).savepath

AskedAny == pc = "names" /\ names.asked # ""

\* C17 as stated: sessions built from different airfoil sources have
\* different output directories and never resolve the same path.
C17_DifferentSourcesDifferentPaths ==
    ( /\ AskedAny
      /\ (names.a1.foil # names.a2.foil \/ names.a1.naca # names.a2.naca) )
    => /\ OutputDir(names.a1) # OutputDir(names.a2)
       /\ names.p1 # names.p2

\* C17 as amended: sessions whose airfoil names differ have different output
\* directories and never resolve the same path; sources with the same name
\* (file paths that differ only in directory or extension) share the
\* directory and the geometry path.
C17_DifferentNamesDifferentPaths ==
    AskedAny =>
        /\ NewSession(names.a1).name = StemName(names.a1)
        /\ NewSession(names.a2).name = StemName(names.a2)
        /\ StemName(names.a1) # StemName(names.a2) =>
              /\ OutputDir(names.a1) # OutputDir(names.a2)
              /\ names.p1 # names.p2
        /\ StemName(names.a1) = StemName(names.a2) =>
              /\ OutputDir(names.a1) = OutputDir(names.a2)
              /\ names.asked = "SaveNameGeom" => names.p1 = names.p2

\* two geometry files with different stems, the same Reynolds number and
\* the same angles
C17_Witness ==
    /\ pc = "names"
    /\ names.asked = "SaveNamePolar"
    /\ ~names.a1.naca
    /\ ~names.a2.naca
    /\ StemName(names.a1) # StemName(names.a2)
    /\ names.a1.Re = names.a2.Re
    /\ names.al1 = names.al2
    /\ names.p1 # names.p2

\* ------------------------------------------------------------------- C18
\* the step is a call of method m
IsCallOf(m) ==
    /\ pc = "ready"
    /\ Len(calls') = Len(calls) + 1
    /\ calls'[Len(calls')].op = m

\* the paths the resolvers return for session s
Resolved(s) ==
    [ geom  |-> SaveNameGeom(s),
      cp    |-> [alf \in Alfas |-> SaveNameSurfCp(s, alf)],
      polar |-> [al \in PolarInputs |-> SaveNamePolar(s, al)] ]

SaveLines(lines) ==
    { lines[i] : i \in { j \in DOMAIN lines : StartsWith(lines[j], "save ") } }

\* C18: a SaveGeom call changes at most self.input, by appending; it leaves
\* every other attribute, the files, the directories and the subprocesses
\* alone. The resolvers it and the other methods call return the same paths
\* before and after, and every save line of the buffer carries the one path
\* SaveNameGeom returns, however often SaveGeom is called.
C18_SaveGeomFrame ==
    [][ IsCallOf("SaveGeom") =>
          /\ disk' = disk
          /\ dirs' = dirs
          /\ procs' = procs
          /\ [self' EXCEPT !.input = self.input] = self
          /\ IsPrefix(self.input, self'.input)
          /\ Len(self'.input) <= Len(self.input) + 1
          /\ Resolved(self') = Resolved(self)
          /\ SaveLines(self'.input) \subseteq { "save " \o SaveNameGeom(self) }
      ]_vars

\* SaveGeom called twice, each call appending its save line
C18_Witness ==
    /\ pc = "ready"
    /\ Len(calls) = 2
    /\ calls[1].op = "SaveGeom"
    /\ calls[2].op = "SaveGeom"
    /\ Len(self.input) = calls[1].at + 2
    /\ self.input[Len(self.input)] = "save " \o SaveNameGeom(self)
    /\ self.input[Len(self.input) - 1] = self.input[Len(self.input)]

\* ------------------------------------------------------------------- C19
\* the positions of the lines among from..to that satisfy P
PositionsIn(from, to, P(_)) == { i \in from..to : i <= Len(self.input) /\ P(self.input[i]) }

IsPaccLine(l) == l = "pacc"

\* polar accumulation is off after the first n lines: every pacc so far has
\* been answered by a second one
AccumulationOff(n) == Cardinality(PositionsIn(1, n, IsPaccLine)) % 2 = 0

\* C19: between calls the number of pacc lines is even; the alfa lines of a
\* Polar call, one for each angle, all stand between the two pacc lines of
\* that call, the second of which is the call's last line; the alfa line of
\* a direct SingleAlfa call stands where accumulation is off.
C19_AccumulationBracket ==
    pc = "ready" =>
        /\ AccumulationOff(Len(self.input))
        /\ \A k \in DOMAIN calls :
            LET from  == calls[k].at + 1
                to    == EndOfCall(k) - 1
                paccs == PositionsIn(from, to, IsPaccLine)
                alfas == PositionsIn(from, to, IsAlfaLine)
            IN  /\ AccumulationOff(calls[k].at)
                /\ AccumulationOff(to)
                /\ calls[k].op = "Polar" =>
                      /\ Cardinality(paccs) = 2
                      /\ to \in paccs
                      /\ Cardinality(alfas) = Len(calls[k].alfs.vals)
                      /\ \A i \in alfas : \E o \in paccs : o < i /\ i < to
                /\ calls[k].op = "SingleAlfa" =>
                      /\ alfas = { from }
                      /\ paccs = {}
                /\ calls[k].op \notin { "Polar", "SingleAlfa" } =>
                      alfas = {} /\ paccs = {}

\* a polar, a direct single case and a second polar
C19_Witness ==
    /\ pc = "ready"
    /\ Len(calls) >= 3
    /\ \E k \in 1..(Len(calls) - 2) :
          /\ calls[k].op = "Polar"
          /\ calls[k + 1].op = "SingleAlfa"
          /\ calls[k + 2].op = "Polar"
          /\ Len(calls[k].alfs.vals) = 2
    /\ Cardinality(PositionsIn(1, Len(self.input), IsPaccLine)) = 4

\* ------------------------------------------------------------------- C20
\* GetPolar has returned
GetPolarReturned == calls # << >> /\ calls[1].by = "GetPolar"

IsOperLine(l) == l = "oper"

IsSaveLine(l) == StartsWith(l, "save ")

\* C20: when GetPolar returns it has made the calls [AddInput('pane'),]
\* SaveGeom, Polar, Quit, RunXfoil in this order on a session built with the
\* graphics off; it has started one subprocess, after Quit, and piped the
\* whole buffer into it: one geometry-load line, then pane if asked for,
\* then the save line if there is one, one oper, two pacc, and four blank
\* lines and quit at the end. When the constructor exits, no subprocess is
\* started.
C20_GetPolarScript ==
    /\ pc \in { "exit", "noexe" } => procs = << >>
    /\ GetPolarReturned =>
        LET ops   == [k \in DOMAIN calls |-> calls[k].op]
            stdin == procs[1].stdin
            n     == Len(stdin)
            loads == Positions(stdin, IsGeomLoadLine)
            panes == Positions(stdin, LAMBDA l : l = "pane")
            saves == Positions(stdin, IsSaveLine)
            opers == Positions(stdin, IsOperLine)
            paccs == Positions(stdin, IsPaccLine)
        IN  /\ pc = "ready"
            /\ ops \in { << "SaveGeom", "Polar", "Quit", "RunXfoil" >>,
                         << "AddInput", "SaveGeom", "Polar", "Quit", "RunXfoil" >> }
            /\ \A k \in DOMAIN calls : calls[k].by = "GetPolar"
            /\ \A k \in 1..(Len(calls) - 1) : calls[k].at <= calls[k + 1].at
            /\ Len(procs) = 1
            /\ procs[1].exe = DefaultXfoilPath(TRUE) \/ procs[1].exe = DefaultXfoilPath(FALSE)
            /\ stdin = self.input
            /\ calls[Len(calls)].at = n
            /\ SubSeq(stdin, 1, 4) = << "plop", "g f", "", GeomLoadLine(args) >>
            /\ loads = { 4 }
            /\ panes = (IF ops[1] = "AddInput" THEN { 5 } ELSE {})
            /\ Cardinality(saves) <= 1
            /\ Cardinality(opers) = 1
            /\ Cardinality(paccs) = 2
            /\ \A i \in panes \cup saves : \A j \in opers : 4 < i /\ i < j
            /\ \A i \in saves : \A j \in panes : j < i
            /\ \A i \in opers : \A j \in paccs : i < j
            /\ n - 5 \in paccs
            /\ SubSeq(stdin, n - 4, n) = << "", "", "", "", "quit" >>

\* GetPolar('Data/s1223.dat', False, [0, 10], 2e5, pane=True) with no output
\* of an earlier run on disk
C20_Witness ==
    /\ GetPolarReturned
    /\ ~args.naca
    /\ args.Re.v # 0
    /\ Len(calls) = 5
    /\ calls[3].alfs = List(<< PyInt(0), PyInt(10) >>)
    /\ calls[3].SaveCP
    /\ Len(procs) = 1
    /\ Len(self.input) = 22
    /\ self.input[6] = "save Data/s1223/s1223.dat"

====
